---- MODULE Spec2Model ----
(***************************************************************************)
(* A model of scripts/criterion_dim_plot.py: the README marker-region      *)
(* replacement, the discovery of dimension directories, the collection of  *)
(* benchmark rows, the staged run of main, and the pure functions that     *)
(* read an estimate and write the percentage, the table and the CSV.       *)
(*                                                                         *)
(* The text of a file (the README, the CSV) and every text written into a  *)
(* file is a sequence of one-character strings.  The marker texts          *)
(* "<!-- BENCH_TABLE:...:BEGIN -->" and "<!-- BENCH_TABLE:...:END -->" are *)
(* each written as one character, "B" and "E": a line equals a marker      *)
(* exactly when, stripped, it is that single character.  A message that is *)
(* printed, or kept in the skip list to be printed, is no such text: it is *)
(* one string, or a sequence of the strings it is put together from.       *)
(***************************************************************************)
EXTENDS Integers, Sequences, FiniteSets, TLC

VARIABLES
    readme,      \* the README file: its raw text, or NoFile
    marker_begin,\* the begin marker handed to _update_readme_table
    marker_end,  \* the end marker handed to _update_readme_table
    upd,         \* the last call of _update_readme_table: arguments, file before, outcome
    upd_prev,    \* the call before that: its replacement text and outcome
    criterion,   \* the Criterion output directory: NoDir, or its children
    dims,        \* the dimension list: discovered, or handed to _collect_rows
    dims_from,   \* "none", "discovered" (by _discover_dims) or "given"
    col,         \* the last call of _collect_rows: its input and outcome
    args,        \* main's flags: --update-readme and --no-plot
    gnuplot,     \* the charting program: "absent", "fails" (exits nonzero) or "ok"
    pc,          \* where main is: "idle", "start", ..., "done"
    rc,          \* what main returned: <<>> before it returns, then <<status>>
    exc,         \* the exception that escaped main, or "none"
    csv,         \* the CSV file: its text, or NoFile
    svg,         \* the SVG file: NoFile, a chart, or what a failed run left
    gnuplot_runs,\* how often the charting program was started
    stdout,      \* the messages printed
    stderr,      \* the messages printed to stderr
    plot,        \* the last call of _maybe_render_plot: the CSV before it, its result
    calc         \* the last call of a pure function: its arguments and its result

readme_vars == <<readme, marker_begin, marker_end, upd, upd_prev>>
rows_vars == <<criterion, dims, dims_from, col>>
main_vars ==
    <<args, gnuplot, pc, rc, exc, csv, svg, gnuplot_runs, stdout, stderr, plot>>
calc_vars == <<calc>>
vars == <<readme_vars, rows_vars, main_vars, calc_vars>>

----------------------------------------------------------------------------
(* Bounds of the model. *)

\* The most chunks a README of the initial states is made of.
MaxChunks == 4

\* The longest dimension list handed to _collect_rows directly.
MaxDims == 2

----------------------------------------------------------------------------
(* Text: the str methods and the file round trip the script relies on. *)

LF == "\n"
CR == "\r"
SP == " "

\* A file that does not exist (reading it raises FileNotFoundError, an OSError).
NoFile == <<"ENOENT">>

\* str.strip() removes these from both ends (those of the model's alphabet).
Whitespace == {SP, LF, CR}

\* str.splitlines() ends a line at each of these ("\r\n" counts once).
LineBreaks == {LF, CR}

\* os.linesep, POSIX: what write_text turns each "\n" into.
Linesep == <<LF>>

\* The first position of s that holds one of chars, 0 when none does.
first_of(s, chars) ==
    IF \E k \in 1..Len(s) : s[k] \in chars
    THEN CHOOSE k \in 1..Len(s) : s[k] \in chars /\ \A j \in 1..(k - 1) : s[j] \notin chars
    ELSE 0

RECURSIVE universal_newlines(_)
\* Path.read_text opens the file with newline=None: "\r\n" and a lone "\r"
\* are both read as "\n".
universal_newlines(s) ==
    LET k == first_of(s, {CR})
    IN  IF k = 0 THEN s
        ELSE SubSeq(s, 1, k - 1) \o <<LF>>
                 \o universal_newlines(
                        IF k < Len(s) /\ s[k + 1] = LF THEN SubSeq(s, k + 2, Len(s))
                        ELSE SubSeq(s, k + 1, Len(s)))

RECURSIVE linesep_out(_)
\* Path.write_text opens the file with newline=None: each "\n" is written as
\* os.linesep.
linesep_out(s) ==
    LET k == first_of(s, {LF})
    IN  IF k = 0 THEN s
        ELSE SubSeq(s, 1, k - 1) \o Linesep \o linesep_out(SubSeq(s, k + 1, Len(s)))

\* Path.read_text(encoding="utf-8") of an existing file.
read_text(file) == universal_newlines(file)

\* Path.write_text(data, encoding="utf-8"): the file's new raw text.
write_text(data) == linesep_out(data)

RECURSIVE splitlines(_, _)
\* str.splitlines(keepends): the first line runs up to the first line break
\* ("\r\n" being one break), the others are the lines of what follows it;
\* no line for a trailing break, no line for "".
splitlines(s, keepends) ==
    IF s = <<>> THEN <<>>
    ELSE LET k == first_of(s, LineBreaks)
         IN  IF k = 0 THEN <<s>>
             ELSE LET two  == s[k] = CR /\ k < Len(s) /\ s[k + 1] = LF
                      last == IF two THEN k + 1 ELSE k
                  IN  <<SubSeq(s, 1, IF keepends THEN last ELSE k - 1)>>
                          \o splitlines(SubSeq(s, last + 1, Len(s)), keepends)

RECURSIVE lstrip_chars(_, _)
lstrip_chars(s, chars) ==
    IF s # <<>> /\ Head(s) \in chars THEN lstrip_chars(Tail(s), chars) ELSE s

RECURSIVE rstrip_chars(_, _)
rstrip_chars(s, chars) ==
    IF s # <<>> /\ s[Len(s)] \in chars
    THEN rstrip_chars(SubSeq(s, 1, Len(s) - 1), chars) ELSE s

\* str.strip(chars)
strip_chars(s, chars) == rstrip_chars(lstrip_chars(s, chars), chars)

\* str.strip()
strip(s) == strip_chars(s, Whitespace)

RECURSIVE join(_)
\* "".join(lines)
join(lines) == IF lines = <<>> THEN <<>> ELSE Head(lines) \o join(Tail(lines))

RECURSIVE indices_where(_, _, _)
\* [i for i, line in enumerate(lines) if line.strip() == marker], from index i on.
\* Indices are 1-based here and 0-based in the script; their order is the same.
indices_where(lines, marker, i) ==
    IF i > Len(lines) THEN <<>>
    ELSE (IF strip(lines[i]) = marker THEN <<i>> ELSE <<>>)
             \o indices_where(lines, marker, i + 1)

----------------------------------------------------------------------------
(* _update_readme_table *)

begin_indices(lines, marker) == indices_where(lines, marker, 1)

end_indices(lines, marker) == indices_where(lines, marker, 1)

\* Mutant of table_lines: the lines without the "\n" added to each.
table_lines_no_newline(table_md) ==
    splitlines(strip_chars(table_md, {LF}), FALSE)

\* [line + "\n" for line in table_md.strip("\n").splitlines()]
table_lines(table_md) ==
    LET ls == splitlines(strip_chars(table_md, {LF}), FALSE)
    IN  [i \in 1..Len(ls) |-> Append(ls[i], LF)]

\* Mutant of new_lines: the tail taken from after the end-marker line,
\* lines[end_idx + 1 :].
new_lines_after_end(lines, begin_idx, end_idx, tl) ==
    SubSeq(lines, 1, begin_idx) \o tl \o SubSeq(lines, end_idx + 1, Len(lines))

\* [*lines[: begin_idx + 1], *table_lines, *lines[end_idx:]]
new_lines(lines, begin_idx, end_idx, tl) ==
    SubSeq(lines, 1, begin_idx) \o tl \o SubSeq(lines, end_idx, Len(lines))

\* Mutant of not_unique: only a missing marker is refused, not a repeated one.
not_unique_missing_only(bs, es) == Len(bs) = 0 \/ Len(es) = 0

\* if len(begin_indices) != 1 or len(end_indices) != 1
not_unique(bs, es) == Len(bs) # 1 \/ Len(es) # 1

\* Mutant of out_of_order: a strict comparison.
out_of_order_strict(begin_idx, end_idx) == begin_idx > end_idx

\* if begin_idx >= end_idx
out_of_order(begin_idx, end_idx) == begin_idx >= end_idx

\* Mutant of unchanged: the comparison dropped, every call writes.
unchanged_never(nl, lines) == FALSE

\* if new_lines == lines
unchanged(nl, lines) == nl = lines

\* One call on a README whose raw text is file: what it returns or raises
\* (ret), whether it wrote the file (wrote), and the file after it (out).
update_readme_table(file, mb, me, table_md) ==
    LET kept(ret) == [ret |-> ret, wrote |-> FALSE, out |-> file]
        written(lines, nl) ==
            IF unchanged(nl, lines) THEN kept("False")
            ELSE [ret |-> "True", wrote |-> TRUE, out |-> write_text(join(nl))]
        between(lines, bs, es) ==
            IF not_unique(bs, es) THEN kept("NotUnique")
            ELSE IF out_of_order(bs[1], es[1]) THEN kept("OutOfOrder")
            ELSE written(lines, new_lines(lines, bs[1], es[1], table_lines(table_md)))
        of(lines) == between(lines, begin_indices(lines, mb), end_indices(lines, me))
    IN  IF file = NoFile THEN kept("OSError")
        ELSE of(splitlines(read_text(file), TRUE))

----------------------------------------------------------------------------
(* Numbers and names: int(), str() and the d<N> directory names. *)

Digits == <<"0", "1", "2", "3", "4", "5", "6", "7", "8", "9">>

IsDigit(c) == \E i \in 1..10 : Digits[i] = c

DigitVal(c) == (CHOOSE i \in 1..10 : Digits[i] = c) - 1

RECURSIVE int_of(_)
\* int(digits)
int_of(ds) ==
    IF ds = <<>> THEN 0
    ELSE 10 * int_of(SubSeq(ds, 1, Len(ds) - 1)) + DigitVal(ds[Len(ds)])

RECURSIVE str_of(_)
\* str(n) of an int n >= 0
str_of(n) ==
    IF n < 10 THEN <<Digits[n + 1]>>
    ELSE Append(str_of(n \div 10), Digits[(n % 10) + 1])

\* None, where an int is expected: no dimension is negative.
NoneValue == -1

\* re.fullmatch(r"d(\d+)", name): the int of the digits, or None

dim_from_group_dir(name) ==
    IF /\ Len(name) >= 2
       /\ name[1] = "d"
       /\ \A i \in 2..Len(name) : IsDigit(name[i])
    THEN int_of(Tail(name))
    ELSE NoneValue

RECURSIVE insert_sorted(_, _)
insert_sorted(sorted_seq, x) ==
    IF sorted_seq = <<>> THEN <<x>>
    ELSE IF x < Head(sorted_seq) THEN <<x>> \o sorted_seq
    ELSE <<Head(sorted_seq)>> \o insert_sorted(Tail(sorted_seq), x)

RECURSIVE sorted(_)
\* sorted(dims): ascending, equal values kept
sorted(xs) ==
    IF xs = <<>> THEN <<>>
    ELSE insert_sorted(sorted(SubSeq(xs, 1, Len(xs) - 1)), xs[Len(xs)])

----------------------------------------------------------------------------
(* The Criterion directory and the estimates.json files under it. *)

\* The metric read (METRICS["lu_solve"]), the statistic and the sample.
Metric ==
    [la_bench |-> "la_stack_lu_solve", na_bench |-> "nalgebra_lu_solve",
     fa_bench |-> "faer_lu_solve", title |-> "LU solve (factor + solve)"]

Benches == {Metric.la_bench, Metric.na_bench, Metric.fa_bench}

Stat == "median"

\* JSON values as json.loads gives them: a number (in thousandths, so 50.125
\* is 50125), an object (a function from its keys), null, true or false, a
\* string that spells a number, a string that spells none, an array.
Num(n) == [kind |-> "num", val |-> n]
Obj(f) == [kind |-> "obj", val |-> f]
Null == [kind |-> "null", val |-> 0]
Bool(b) == [kind |-> "bool", val |-> IF b THEN 1000 ELSE 0]
Str(n) == [kind |-> "str", val |-> n]
Text == [kind |-> "text", val |-> 0]
Arr == [kind |-> "arr", val |-> 0]

\* A path that does not exist.
Missing == [kind |-> "missing", val |-> 0]

\* What a call that raised AttributeError leaves in place of its value.
AttributeError == [kind |-> "AttributeError", val |-> 0]

\* A directory that does not exist.
NoDir == [exists |-> FALSE, children |-> <<>>]

\* isinstance(x, dict)
is_dict(x) == x.kind = "obj"

\* x.get(key): the value of the key, None when a dict has no such key; only
\* a dict has the method, on any other value the call raises AttributeError.
get(obj, key) ==
    IF ~is_dict(obj) THEN AttributeError
    ELSE IF key \in DOMAIN obj.val THEN obj.val[key] ELSE Null

\* Mutant of get_default: the default dropped, dict.get(key).
get_without_default(obj, key, default) ==
    IF key \in DOMAIN obj.val THEN obj.val[key] ELSE Null

\* dict.get(key, default)
get_default(obj, key, default) ==
    IF key \in DOMAIN obj.val THEN obj.val[key] ELSE default

\* float(x) of a JSON value: the number itself, 1.0 and 0.0 for true and
\* false, the number a string spells; ValueError for a string that spells
\* none, TypeError for null, an object and an array.
float(x) ==
    IF x.kind \in {"num", "bool", "str"} THEN [raise |-> "none", val |-> x.val]
    ELSE IF x.kind = "text" THEN [raise |-> "ValueError", val |-> 0]
    ELSE [raise |-> "TypeError", val |-> 0]

\* _read_estimate on the parsed content of an existing file: the
\* (point, lower, upper) it returns, or the exception it raises.
read_estimate(data, stat) ==
    LET raises(e) == [raise |-> e, val |-> <<0, 0, 0>>]
        returns(point, lo, hi) == [raise |-> "none", val |-> <<point, lo, hi>>]
        bounds(point, lo, hi) ==
            IF lo.raise # "none" THEN raises(lo.raise)
            ELSE IF hi.raise # "none" THEN raises(hi.raise)
            ELSE returns(point, lo.val, hi.val)
        interval(point, ci) ==
            IF point.raise # "none" THEN raises(point.raise)
            ELSE IF ~is_dict(ci) THEN returns(point.val, point.val, point.val)
            ELSE bounds(point.val,
                        float(get_default(ci, "lower_bound", Num(point.val))),
                        float(get_default(ci, "upper_bound", Num(point.val))))
        estimate(stat_obj) ==
            IF stat_obj = AttributeError THEN raises("AttributeError")
            ELSE IF ~is_dict(stat_obj) THEN raises("KeyError")
            ELSE IF "point_estimate" \notin DOMAIN stat_obj.val THEN raises("KeyError")
            ELSE interval(float(stat_obj.val["point_estimate"]),
                          get(stat_obj, "confidence_interval"))
    IN  IF data = Missing THEN raises("FileNotFoundError")
        ELSE estimate(get(data, stat))

\* group_dir / bench / sample / "estimates.json" for group_dir = d<d>: the
\* file's parsed content, or Missing.
estimates_json(criterion_dir, d, bench) ==
    LET name == <<"d">> \o str_of(d)
    IN  IF /\ criterion_dir.exists
           /\ name \in DOMAIN criterion_dir.children
           /\ criterion_dir.children[name].is_dir
        THEN criterion_dir.children[name].est[bench]
        ELSE Missing

\* Path.exists()
exists(file) == file # Missing

\* The children of the directory that _discover_dims keeps, in the order
\* iterdir yields them.
RECURSIVE discovered(_, _)
discovered(criterion_dir, order) ==
    IF order = <<>> THEN <<>>
    ELSE LET child == Head(order)
             d     == dim_from_group_dir(child)
             rest  == discovered(criterion_dir, Tail(order))
         IN  IF ~criterion_dir.children[child].is_dir THEN rest
             ELSE IF d = NoneValue THEN rest
             ELSE <<d>> \o rest

\* Mutant of discover_dims: the dimensions in iterdir order, unsorted.
discover_dims_unsorted(criterion_dir, order) == discovered(criterion_dir, order)

\* _discover_dims(criterion_dir), iterdir yielding the children in order
discover_dims(criterion_dir, order) == sorted(discovered(criterion_dir, order))

\* f"d{d} (missing {metric.la_bench}, {metric.na_bench}, or {metric.fa_bench})"
skip_entry(d, metric) ==
    <<"d">> \o str_of(d)
        \o <<" (missing ", metric.la_bench, ", ", metric.na_bench, ", or ",
             metric.fa_bench, ")">>

\* Mutant of any_missing: a dimension is skipped only when all three are missing.
all_missing(la_est, na_est, fa_est) ==
    ~exists(la_est) /\ ~exists(na_est) /\ ~exists(fa_est)

\* not la_est.exists() or not na_est.exists() or not fa_est.exists()
any_missing(la_est, na_est, fa_est) ==
    ~exists(la_est) \/ ~exists(na_est) \/ ~exists(fa_est)

\* Row(dim=d, la_time=la, ...)
Row(d, la, na, fa) ==
    [dim |-> d,
     la_time |-> la[1], la_lo |-> la[2], la_hi |-> la[3],
     na_time |-> na[1], na_lo |-> na[2], na_hi |-> na[3],
     fa_time |-> fa[1], fa_lo |-> fa[2], fa_hi |-> fa[3]]

\* rows.append(Row(...))
append_row(rows, row) == Append(rows, row)

RECURSIVE collect_from(_, _, _, _, _, _)
\* The loop of _collect_rows over the dimensions still to visit.
collect_from(criterion_dir, todo, metric, stat, rows, skipped) ==
    IF todo = <<>> THEN [raise |-> "none", rows |-> rows, skipped |-> skipped]
    ELSE
    LET d == Head(todo)
        raises(e) == [raise |-> e, rows |-> <<>>, skipped |-> <<>>]
        read(la, na, fa) ==
            IF la.raise # "none" THEN raises(la.raise)
            ELSE IF na.raise # "none" THEN raises(na.raise)
            ELSE IF fa.raise # "none" THEN raises(fa.raise)
            ELSE collect_from(criterion_dir, Tail(todo), metric, stat,
                              append_row(rows, Row(d, la.val, na.val, fa.val)),
                              skipped)
        visit(la_est, na_est, fa_est) ==
            IF any_missing(la_est, na_est, fa_est)
            THEN collect_from(criterion_dir, Tail(todo), metric, stat, rows,
                              Append(skipped, skip_entry(d, metric)))
            ELSE read(read_estimate(la_est, stat), read_estimate(na_est, stat),
                      read_estimate(fa_est, stat))
    IN  visit(estimates_json(criterion_dir, d, metric.la_bench),
              estimates_json(criterion_dir, d, metric.na_bench),
              estimates_json(criterion_dir, d, metric.fa_bench))

\* _collect_rows(criterion_dir, dims, metric, stat, sample): (rows, skipped),
\* or the exception a read raised.
collect_rows(criterion_dir, dim_list, metric, stat) ==
    collect_from(criterion_dir, dim_list, metric, stat, <<>>, <<>>)

----------------------------------------------------------------------------
(* The two outputs built from the rows: the CSV text and the Markdown table. *)
(* A time is a float of the script; here it is a whole number of            *)
(* thousandths (50125 is 50.125: the double nearest to it), zero or more    *)
(* and below 2^31 thousandths, so that repr() and the format specs write it *)
(* in plain decimal notation.                                               *)
(* _pct_reduction is modelled on float("inf") as well, written Infinity.    *)

\* float("inf"), which float() gives for the JSON numbers Infinity and 1e999:
\* the one time that is not a number of thousandths.
Infinity == -1

\* The three digits of the fraction.
frac3(t) ==
    <<Digits[((t % 1000) \div 100) + 1], Digits[((t % 100) \div 10) + 1],
      Digits[(t % 10) + 1]>>

RECURSIVE rstrip_zeros(_)
rstrip_zeros(ds) ==
    IF Len(ds) > 1 /\ ds[Len(ds)] = "0"
    THEN rstrip_zeros(SubSeq(ds, 1, Len(ds) - 1)) ELSE ds

\* Mutant of repr_float: one decimal written, f"{x:.1f}", the rest cut off.
format_1f(t) == str_of(t \div 1000) \o <<".", Digits[((t % 1000) \div 100) + 1]>>

\* repr(x) of a float, as an f-string writes {x}: "50.0", "50.125"
repr_float(t) == str_of(t \div 1000) \o <<".">> \o rstrip_zeros(frac3(t))

RECURSIVE group_thousands(_)
\* The "," option of a format spec on the integer part n.
group_thousands(n) ==
    IF n < 1000 THEN str_of(n)
    ELSE group_thousands(n \div 1000) \o <<",">>
             \o <<Digits[((n % 1000) \div 100) + 1], Digits[((n % 100) \div 10) + 1],
                  Digits[(n % 10) + 1]>>

\* f"{x:,.3f}"
format_comma_3f(t) == group_thousands(t \div 1000) \o <<".">> \o frac3(t)

\* round(a / b) to the nearest integer, a tie going to the even one
\* (a >= 0, b > 0).
round_half_even(a, b) ==
    LET q == a \div b
        r == a % b
    IN  IF 2 * r > b THEN q + 1
        ELSE IF 2 * r < b THEN q
        ELSE IF q % 2 = 0 THEN q ELSE q + 1

----------------------------------------------------------------------------
(* Floats.  The script's times and its percentage are IEEE 754 doubles: a   *)
(* sign, a significand of 53 bits and an exponent.  float() of a numeral    *)
(* and each arithmetic operation give the double nearest to the exact       *)
(* result, a tie going to the even significand.  The significands and the   *)
(* exact results are whole numbers beyond the integers of the model, kept   *)
(* as sequences of limbs.  The times stay far from the smallest and the     *)
(* largest doubles, so no result is subnormal or overflows.  A whole number  *)
(* that a step uses more than once is the argument of a local operator, so  *)
(* that it is written, and computed, once.                                  *)

\* The bits of a limb, and the base the limbs are digits of.
LimbBits == 15
Base == 2^LimbBits

\* A whole number >= 0: its limbs, lowest first, the highest not zero; <<>>
\* is 0.
BigNorm(a) ==
    LET top == IF \E i \in 1..Len(a) : a[i] # 0
               THEN CHOOSE i \in 1..Len(a) :
                        a[i] # 0 /\ \A j \in (i + 1)..Len(a) : a[j] = 0
               ELSE 0
    IN  SubSeq(a, 1, top)

BigOfInt(n) == BigNorm(<<n % Base, (n \div Base) % Base, n \div (Base * Base)>>)

\* a < b
BigLess(a, b) ==
    \/ Len(a) < Len(b)
    \/ /\ Len(a) = Len(b)
       /\ \E i \in 1..Len(a) :
              a[i] < b[i] /\ \A j \in (i + 1)..Len(a) : a[j] = b[j]

\* a + b: limb by limb from the lowest, the carry c handed on.
BigAdd(a, b) ==
    LET RECURSIVE add_carry(_, _, _)
        add_carry(u, v, c) ==
            IF u = <<>> /\ v = <<>> THEN (IF c = 0 THEN <<>> ELSE <<c>>)
            ELSE LET x == IF u = <<>> THEN 0 ELSE Head(u)
                     y == IF v = <<>> THEN 0 ELSE Head(v)
                     t == x + y + c
                 IN  <<t % Base>>
                         \o add_carry(IF u = <<>> THEN u ELSE Tail(u),
                                      IF v = <<>> THEN v ELSE Tail(v), t \div Base)
    IN  add_carry(a, b, 0)

\* a - b, for a >= b: limb by limb from the lowest, the borrow c handed on.
BigSub(a, b) ==
    LET RECURSIVE sub_borrow(_, _, _)
        sub_borrow(u, v, c) ==
            IF u = <<>> THEN <<>>
            ELSE LET y == IF v = <<>> THEN 0 ELSE Head(v)
                     t == Head(u) - y - c
                 IN  <<(IF t < 0 THEN t + Base ELSE t)>>
                         \o sub_borrow(Tail(u), IF v = <<>> THEN v ELSE Tail(v),
                                       IF t < 0 THEN 1 ELSE 0)
    IN  BigNorm(sub_borrow(a, b, 0))

\* a * k, for 0 <= k < Base
BigMulSmall(a, k) ==
    LET RECURSIVE mul_carry(_, _)
        mul_carry(u, c) ==
            IF u = <<>> THEN (IF c = 0 THEN <<>> ELSE <<c>>)
            ELSE LET t == Head(u) * k + c
                 IN  <<t % Base>> \o mul_carry(Tail(u), t \div Base)
    IN  BigNorm(mul_carry(a, 0))

RECURSIVE BigMul(_, _)
\* a * b
BigMul(a, b) ==
    IF b = <<>> THEN <<>>
    ELSE BigAdd(BigMulSmall(a, Head(b)), BigNorm(<<0>> \o BigMul(a, Tail(b))))

\* a * 2^n
BigShl(a, n) ==
    IF a = <<>> THEN <<>>
    ELSE [i \in 1..(n \div LimbBits) |-> 0] \o BigMulSmall(a, 2^(n % LimbBits))

\* The bits of a: 0 for 0, else the k with 2^(k - 1) <= a < 2^k.
BitLen(a) ==
    IF a = <<>> THEN 0
    ELSE LimbBits * (Len(a) - 1)
             + (CHOOSE k \in 1..LimbBits :
                    2^(k - 1) <= a[Len(a)] /\ a[Len(a)] < 2^k)

\* Quotient and remainder of a by k, 0 < k < Base, from the highest limb down.
BigDivSmall(a, k) ==
    LET RECURSIVE div_small(_)
        div_small(u) ==
            IF u = <<>> THEN [quot |-> <<>>, rem |-> 0]
            ELSE LET high == div_small(Tail(u))
                     t    == high.rem * Base + Head(u)
                 IN  [quot |-> <<t \div k>> \o high.quot, rem |-> t % k]
        r == div_small(a)
    IN  [quot |-> BigNorm(r.quot), rem |-> r.rem]

\* Quotient and remainder of n by d, d > 0: by a divisor of one limb as
\* above, else by long division in base 16 from the highest place down, the
\* digit of place i being the largest q with q * d * 16^i <= the remainder
\* left by the places above (0 where d * 16^i is beyond that remainder).
BigDivMod(n, d) ==
    LET RECURSIVE div_from(_)
        digit(r, di) ==
            CHOOSE k \in 0..15 :
                /\ ~BigLess(r, BigMulSmall(di, k))
                /\ k = 15 \/ BigLess(r, BigMulSmall(di, k + 1))
        take(high, di, q) ==
            [quot |-> BigAdd(BigMulSmall(high.quot, 16), BigOfInt(q)),
             rem  |-> BigSub(high.rem, BigMulSmall(di, q))]
        place(high, di) ==
            IF BigLess(high.rem, di)
            THEN [quot |-> BigMulSmall(high.quot, 16), rem |-> high.rem]
            ELSE take(high, di, digit(high.rem, di))
        places(bits) == IF bits < 0 THEN 0 ELSE bits \div 4 + 1
        div_from(i) ==
            IF i >= places(BitLen(n) - BitLen(d)) THEN [quot |-> <<>>, rem |-> n]
            ELSE place(div_from(i + 1), BigShl(d, 4 * i))
        one_limb(short) == [quot |-> short.quot, rem |-> BigOfInt(short.rem)]
    IN  IF Len(d) = 1 THEN one_limb(BigDivSmall(n, d[1])) ELSE div_from(0)

\* n / d rounded to the nearest whole number, a tie going to the even one.
BigRound(n, d) ==
    LET odd(quot) == quot # <<>> /\ quot[1] % 2 = 1
        nearest(quot, twice) ==
            IF BigLess(d, twice) \/ (twice = d /\ odd(quot))
            THEN BigAdd(quot, <<1>>) ELSE quot
        rounded(dm) == nearest(dm.quot, BigMulSmall(dm.rem, 2))
    IN  rounded(BigDivMod(n, d))

\* The double 0.0.
Zero == [sign |-> 1, m |-> <<>>, e |-> 0]

\* The double nearest to sign * (n / d) * 2^e0, for n > 0 and d > 0: the
\* quotient is scaled by the power of two that puts it between 2^52 and 2^53,
\* and rounded there to the 53 bits of a significand.
nearest_double(sign, n, d, e0) ==
    LET num(t) == IF t >= 0 THEN BigShl(n, t) ELSE n
        den(t) == IF t >= 0 THEN d ELSE BigShl(d, -t)
        double(m, t) ==
            IF BitLen(m) > 53
            THEN [sign |-> sign, m |-> BigShl(<<1>>, 52), e |-> e0 - t + 1]
            ELSE [sign |-> sign, m |-> m, e |-> e0 - t]
        rounded(t) == double(BigRound(num(t), den(t)), t)
        scaled(t0) ==
            rounded(IF BigLess(num(t0), BigShl(den(t0), 52)) THEN t0 + 1 ELSE t0)
    IN  scaled(52 - (BitLen(n) - BitLen(d)))

\* The float of a time: the double nearest to t / 1000.
float_of_time(t) ==
    IF t = 0 THEN Zero ELSE nearest_double(1, BigOfInt(t), <<1000>>, 0)

\* x - y, for x >= 0 and y >= 0.  Equal operands give +0.0.
float_sub(x, y) ==
    LET e == IF x.m = <<>> THEN y.e
             ELSE IF y.m = <<>> THEN x.e
             ELSE IF x.e < y.e THEN x.e ELSE y.e
        difference(xs, ys) ==
            IF xs = ys THEN Zero
            ELSE nearest_double(IF BigLess(ys, xs) THEN 1 ELSE -1,
                                IF BigLess(ys, xs) THEN BigSub(xs, ys)
                                ELSE BigSub(ys, xs),
                                <<1>>, e)
    IN  difference(BigShl(x.m, x.e - e), BigShl(y.m, y.e - e))

\* x / y, for y > 0
float_div(x, y) ==
    IF x.m = <<>> THEN Zero
    ELSE nearest_double(x.sign * y.sign, x.m, y.m, x.e - y.e)

\* x * y
float_mul(x, y) ==
    IF x.m = <<>> \/ y.m = <<>> THEN Zero
    ELSE nearest_double(x.sign * y.sign, BigMul(x.m, y.m), <<1>>, x.e + y.e)

\* ((baseline - value) / baseline) * 100.0, for baseline > 0
percent(baseline, value) ==
    LET hundred == [sign |-> 1, m |-> BigShl(<<100>>, 46), e |-> -46]
        of(b, v) == float_mul(float_div(float_sub(b, v), b), hundred)
    IN  of(float_of_time(baseline), float_of_time(value))

\* The tenths a format spec ".1f" writes for the double x: |x| * 10 rounded
\* to the nearest whole number, a tie going to the even one.
tenths_of(x) ==
    IF x.m = <<>> THEN <<>>
    ELSE IF x.e >= 0 THEN BigShl(BigMulSmall(x.m, 10), x.e)
    ELSE BigRound(BigMulSmall(x.m, 10), BigShl(<<1>>, -x.e))

RECURSIVE big_str(_)
\* str(a) of a whole number a >= 0
big_str(a) ==
    IF a = <<>> THEN <<"0">>
    ELSE IF Len(a) = 1 /\ a[1] < 10 THEN <<Digits[a[1] + 1]>>
    ELSE LET dm == BigDivSmall(a, 10)
         IN  Append(big_str(dm.quot), Digits[dm.rem + 1])

\* The sign and the tenths of pct = ((baseline - value) / baseline) * 100.0 as
\* ".1f" rounds them, the tenths in decimal digits.  The four roundings of
\* the script (of the two times, of the difference, of the quotient and of
\* the product) move pct by less than the distance between the exact
\* percentage and the nearest halfway point, unless the exact percentage is
\* itself halfway between two tenths: there, and where 1000 * |baseline -
\* value| is beyond the integers of the model, the doubles are computed step
\* by step; elsewhere the tenths are those of the exact quotient.
signed_tenths(baseline, value) ==
    LET num    == baseline - value
        a      == IF num < 0 THEN -num ELSE num
        is_tie == 2 * ((1000 * a) % baseline) = baseline
        tenths(pct) ==
            [negative |-> pct.sign = -1, digits |-> big_str(tenths_of(pct))]
    IN  IF a <= 2000000 /\ baseline <= 1000000000 /\ ~is_tie
        THEN [negative |-> num < 0,
              digits |-> str_of(round_half_even(1000 * a, baseline))]
        ELSE tenths(percent(baseline, value))

\* Mutant of format_signed_1f: the "+" of the format spec dropped,
\* f"{pct:.1f}%".
format_unsigned_1f(t) ==
    (IF t.negative THEN <<"-">> ELSE <<>>)
        \o (IF Len(t.digits) = 1 THEN <<"0">>
            ELSE SubSeq(t.digits, 1, Len(t.digits) - 1))
        \o <<".", t.digits[Len(t.digits)], "%">>

\* f"{pct:+.1f}%" of the sign and the tenths t: the sign, the whole part of
\* the tenths, the point, the last digit of the tenths.
format_signed_1f(t) ==
    <<(IF t.negative THEN "-" ELSE "+")>>
        \o (IF Len(t.digits) = 1 THEN <<"0">>
            ELSE SubSeq(t.digits, 1, Len(t.digits) - 1))
        \o <<".", t.digits[Len(t.digits)], "%">>

\* Mutant of pct_reduction: the guard looks at the value, and a zero baseline
\* reaches the division.
pct_reduction_guards_value(baseline, value) ==
    IF value = 0 THEN <<"n", "/", "a">>
    ELSE IF baseline = 0 THEN <<"ZeroDivisionError">>
    ELSE IF baseline = Infinity THEN <<"+", "n", "a", "n", "%">>
    ELSE IF value = Infinity THEN <<"-", "i", "n", "f", "%">>
    ELSE format_signed_1f(signed_tenths(baseline, value))

\* _pct_reduction(baseline, value).  With an infinite baseline the quotient
\* is inf / inf or nan / inf, a nan; with an infinite value alone it is -inf.
pct_reduction(baseline, value) ==
    IF baseline = 0 THEN <<"n", "/", "a">>
    ELSE IF baseline = Infinity THEN <<"+", "n", "a", "n", "%">>
    ELSE IF value = Infinity THEN <<"-", "i", "n", "f", "%">>
    ELSE format_signed_1f(signed_tenths(baseline, value))

\* The header line _write_csv writes:
\* "D,la_stack,la_lo,la_hi,nalgebra,na_lo,na_hi,faer,fa_lo,fa_hi\n"
CsvHeader ==
    <<"D", ",", "l", "a", "_", "s", "t", "a", "c", "k", ",", "l", "a", "_",
      "l", "o", ",", "l", "a", "_", "h", "i", ",", "n", "a", "l", "g", "e",
      "b", "r", "a", ",", "n", "a", "_", "l", "o", ",", "n", "a", "_", "h",
      "i", ",", "f", "a", "e", "r", ",", "f", "a", "_", "l", "o", ",", "f",
      "a", "_", "h", "i">>
        \o <<LF>>

\* One line of the CSV: f"{row.dim},{row.la_time},...,{row.fa_hi}\n"
csv_line(row) ==
    str_of(row.dim)
        \o <<",">> \o repr_float(row.la_time) \o <<",">> \o repr_float(row.la_lo)
        \o <<",">> \o repr_float(row.la_hi)
        \o <<",">> \o repr_float(row.na_time) \o <<",">> \o repr_float(row.na_lo)
        \o <<",">> \o repr_float(row.na_hi)
        \o <<",">> \o repr_float(row.fa_time) \o <<",">> \o repr_float(row.fa_lo)
        \o <<",">> \o repr_float(row.fa_hi) \o <<LF>>

RECURSIVE csv_lines(_)
csv_lines(rows) ==
    IF rows = <<>> THEN <<>> ELSE csv_line(Head(rows)) \o csv_lines(Tail(rows))

\* _write_csv(out_csv, rows): the text of the file it writes.
write_csv(rows) == CsvHeader \o csv_lines(rows)

\* " | ", between the cells of a table line.
Bar == <<SP, "|", SP>>

\* f"| D | la-stack {stat} (ns) | nalgebra {stat} (ns) | faer {stat} (ns) |
\*    la-stack vs nalgebra | la-stack vs faer |", for the two statistics
\* --stat accepts.
table_header(stat) ==
    LET name     == IF stat = "median" THEN <<"m", "e", "d", "i", "a", "n">>
                    ELSE <<"m", "e", "a", "n">>
        la_stack == <<"l", "a", "-", "s", "t", "a", "c", "k">>
        nalgebra == <<"n", "a", "l", "g", "e", "b", "r", "a">>
        faer     == <<"f", "a", "e", "r">>
        ns       == <<SP, "(", "n", "s", ")">>
        vs       == <<SP, "v", "s", SP>>
    IN  <<"|", SP, "D">>
            \o Bar \o la_stack \o <<SP>> \o name \o ns
            \o Bar \o nalgebra \o <<SP>> \o name \o ns
            \o Bar \o faer \o <<SP>> \o name \o ns
            \o Bar \o la_stack \o vs \o nalgebra
            \o Bar \o la_stack \o vs \o faer \o <<SP, "|">>

\* "|---:|--------------------:|--------------------:|----------------:|
\*  ---------------------:|----------------:|": in each cell n dashes and
\* a colon, then the bar.
table_rule ==
    LET cell(n) ==
            [i \in 1..(n + 2) |->
                IF i <= n THEN "-" ELSE IF i = n + 1 THEN ":" ELSE "|"]
    IN  <<"|">> \o cell(3) \o cell(20) \o cell(20) \o cell(16) \o cell(21) \o cell(16)

\* f"| {row.dim} | {row.la_time:,.3f} | ... | {pct_vs_na} | {pct_vs_fa} |"
table_row(row) ==
    LET pct_vs_na == pct_reduction(row.na_time, row.la_time)
        pct_vs_fa == pct_reduction(row.fa_time, row.la_time)
    IN  <<"|", SP>> \o str_of(row.dim)
            \o Bar \o format_comma_3f(row.la_time)
            \o Bar \o format_comma_3f(row.na_time)
            \o Bar \o format_comma_3f(row.fa_time)
            \o Bar \o pct_vs_na
            \o Bar \o pct_vs_fa \o <<SP, "|">>

RECURSIVE join_lines(_)
\* "\n".join(lines)
join_lines(lines) ==
    IF lines = <<>> THEN <<>>
    ELSE IF Len(lines) = 1 THEN lines[1]
    ELSE Head(lines) \o <<LF>> \o join_lines(Tail(lines))

\* _markdown_table(rows, stat)
markdown_table(rows, stat) ==
    join_lines(<<table_header(stat), table_rule>>
                   \o [i \in 1..Len(rows) |-> table_row(rows[i])])

----------------------------------------------------------------------------
(* The READMEs and replacement texts the calls are tried on. *)

\* The pieces a README is put together from: marker lines (bare, and padded
\* with a CRLF ending), text lines with either ending, an unterminated marker.
Chunks ==
    { <<"B", LF>>, <<"E", LF>>, <<"x", LF>>,
      <<SP, "B", CR, LF>>, <<"x", CR, LF>>, <<"E">> }

RECURSIVE DocsOf(_)
DocsOf(n) ==
    IF n = 0 THEN {<<>>}
    ELSE LET shorter == DocsOf(n - 1)
         IN  shorter \cup {d \o c : d \in shorter, c \in Chunks}

Docs == DocsOf(MaxChunks) \cup {NoFile}

\* Replacement texts: empty, one line, the text a README may already hold
\* (with blank lines around it), two lines, and one holding a marker line.
Tables ==
    { <<>>, <<"|">>, <<LF, "x", LF>>, <<"|", LF, "x">>, <<"|", LF, "B">> }

NoCall == [table |-> <<>>, before |-> <<>>, ret |-> "none", wrote |-> FALSE]
NoPrev == [table |-> <<>>, ret |-> "none"]

NoPlot == [state |-> "none", ret |-> 0, csv_before |-> NoFile, svg_before |-> NoFile]

NoCollect ==
    [state |-> "none", dims |-> <<>>, raise |-> "none", rows |-> <<>>, skipped |-> <<>>]

NoCalc ==
    [op |-> "none", given |-> "nothing", baseline |-> 0, value |-> 0, rows |-> <<>>, data |-> Null,
     stat |-> "", text |-> <<>>, est |-> [raise |-> "none", val |-> <<0, 0, 0>>]]

CalcIdle == calc = NoCalc

ReadmeIdle ==
    /\ readme = NoFile
    /\ marker_begin = <<"B">>
    /\ marker_end = <<"E">>
    /\ upd = NoCall
    /\ upd_prev = NoPrev

RowsIdle ==
    /\ criterion = NoDir
    /\ dims = <<>>
    /\ dims_from = "none"
    /\ col = NoCollect

MainIdle ==
    /\ args = [update_readme |-> FALSE, no_plot |-> FALSE]
    /\ gnuplot = "absent"
    /\ pc = "idle"
    /\ rc = <<>>
    /\ exc = "none"
    /\ csv = NoFile
    /\ svg = NoFile
    /\ gnuplot_runs = 0
    /\ stdout = <<>>
    /\ stderr = <<>>
    /\ plot = NoPlot

InitReadme ==
    /\ readme \in Docs
    /\ marker_begin = <<"B">>
    /\ marker_end \in {<<"E">>, <<"B">>}
    /\ upd = NoCall
    /\ upd_prev = NoPrev
    /\ RowsIdle
    /\ MainIdle
    /\ CalcIdle

\* A call _update_readme_table(readme_path, marker_begin, marker_end, table_md),
\* the first on the file or the second; longer runs of updates are those of
\* SpecUpdates.
UpdateReadmeTable ==
    /\ upd_prev.ret = "none"
    /\ \E table_md \in Tables :
        \E r \in {update_readme_table(readme, marker_begin, marker_end, table_md)} :
            /\ readme' = r.out
            /\ upd' = [table |-> table_md, before |-> readme,
                       ret |-> r.ret, wrote |-> r.wrote]
            /\ upd_prev' = [table |-> upd.table, ret |-> upd.ret]
            /\ UNCHANGED <<marker_begin, marker_end>>
    /\ UNCHANGED <<rows_vars, main_vars, calc_vars>>

NextReadme == UpdateReadmeTable

SpecReadme == InitReadme /\ [][NextReadme]_vars

----------------------------------------------------------------------------
(* The Criterion directories the discovery and the collection are tried on. *)

\* A result file holding the statistic with a confidence interval around p.
GoodFile(p) ==
    Obj([median |->
            Obj([point_estimate |-> Num(p),
                 confidence_interval |->
                     Obj([lower_bound |-> Num(p - 500), upper_bound |-> Num(p + 500)])])])

\* A result file that exists and holds another statistic only.
NoStatFile == Obj([mean |-> Obj([point_estimate |-> Num(1000)])])

D2 == <<"d", "2">>
D02 == <<"d", "0", "2">>
D10 == <<"d", "1", "0">>
Other == <<"x", "2">>

Names == {D2, D10, D02, Other}

\* The point estimate a good file of a directory holds, in thousandths of a
\* nanosecond.
TimeOf(name, bench) ==
    LET k == CASE bench = Metric.la_bench -> 1
               [] bench = Metric.na_bench -> 2
               [] OTHER -> 3
    IN  CASE name = D2  -> <<50000, 100000, 200000>>[k]
          [] name = D10 -> <<1000000, 900000, 800000>>[k]
          [] OTHER      -> <<7000, 8000, 9000>>[k]

\* The good files of the benches in present, the others missing.
PresentEst(name, present) ==
    [b \in Benches |-> IF b \in present THEN GoodFile(TimeOf(name, b)) ELSE Missing]

\* As PresentEst, the files of the benches in nostat lacking the statistic.
WithNoStat(est, nostat) ==
    [b \in Benches |-> IF b \in nostat THEN NoStatFile ELSE est[b]]

\* What a name of the directory can be: nothing, a plain file, a directory
\* with any of the three result files present, or with one of them malformed
\* (the statistic missing, or the file's content no JSON object).
Absent == [is_dir |-> FALSE, est |-> [b \in Benches |-> Null]]
PlainFile == [is_dir |-> FALSE, est |-> [b \in Benches |-> Missing]]
DirEntry(est) == [is_dir |-> TRUE, est |-> est]

FullKinds(name) ==
    {Absent, PlainFile}
        \cup {DirEntry(PresentEst(name, present)) : present \in SUBSET Benches}
        \cup {DirEntry(WithNoStat(PresentEst(name, Benches), {Metric.la_bench})),
              DirEntry(WithNoStat(PresentEst(name, Benches), {Metric.fa_bench})),
              DirEntry(WithNoStat(PresentEst(name, Benches \ {Metric.na_bench}),
                                  {Metric.la_bench})),
              DirEntry([PresentEst(name, Benches) EXCEPT ![Metric.la_bench] = Null])}

FewKinds(name) ==
    {Absent, DirEntry(PresentEst(name, Benches)), DirEntry(PresentEst(name, {}))}

KindsOf(name) ==
    IF name \in {D2, D10} THEN FullKinds(name)
    ELSE IF name = D02 THEN FewKinds(name)
    ELSE {Absent, DirEntry(PresentEst(name, {}))}

Directory(pick) ==
    [exists |-> TRUE,
     children |-> [n \in {m \in Names : pick[m] # Absent} |-> pick[n]]]

FileSystems ==
    {NoDir} \cup
    {Directory(pick) :
        pick \in {f \in [Names -> UNION {KindsOf(n) : n \in Names}] :
                     \A n \in Names : f[n] \in KindsOf(n)}}

RECURSIVE Perms(_)
\* The orders iterdir may yield a set of children in.
Perms(S) ==
    IF S = {} THEN {<<>>}
    ELSE UNION {{<<x>> \o p : p \in Perms(S \ {x})} : x \in S}

DimValues == {2, 3, 10}

DimLists == UNION {[1..n -> DimValues] : n \in 0..MaxDims}

InitRows ==
    /\ ReadmeIdle
    /\ MainIdle
    /\ CalcIdle
    /\ criterion \in FileSystems
    /\ dims = <<>>
    /\ dims_from = "none"
    /\ col = NoCollect

\* dims = _discover_dims(criterion_dir), whatever order iterdir yields
DiscoverDims ==
    /\ dims_from = "none"
    /\ criterion.exists
    /\ \E order \in Perms(DOMAIN criterion.children) :
           dims' = discover_dims(criterion, order)
    /\ dims_from' = "discovered"
    /\ UNCHANGED <<criterion, col, readme_vars, main_vars, calc_vars>>

\* A caller of _collect_rows with a dimension list of its own.
GiveDims ==
    /\ dims_from = "none"
    /\ dims' \in DimLists
    /\ dims_from' = "given"
    /\ UNCHANGED <<criterion, col, readme_vars, main_vars, calc_vars>>

\* rows, skipped = _collect_rows(criterion_dir, dims, metric, stat, sample)
CollectRows ==
    /\ dims_from # "none"
    /\ col.state = "none"
    /\ \E r \in {collect_rows(criterion, dims, Metric, Stat)} :
           col' = [state |-> "done", dims |-> dims, raise |-> r.raise,
                   rows |-> r.rows, skipped |-> r.skipped]
    /\ UNCHANGED <<criterion, dims, dims_from, readme_vars, main_vars, calc_vars>>

NextRows == DiscoverDims \/ GiveDims \/ CollectRows

SpecRows == InitRows /\ [][NextRows]_vars

----------------------------------------------------------------------------
(* main and its stages. *)

\* _readme_table_markers(metric, stat, sample): the two marker texts, each
\* one character of the model.
readme_table_markers == <<(<<"B">>), (<<"E">>)>>

\* str(e) of what _update_readme_table raised.
error_text(ret) ==
    CASE ret = "NotUnique"  -> "README markers not found or not unique."
      [] ret = "OutOfOrder" -> "README markers are out of order."
      [] OTHER              -> "No such file or directory: README"

\* Mutant of readme_status: a failed update is reported as success.
readme_status_ignored(ret) == 0

\* The try/except of _maybe_update_readme: 2 for an OSError or a ValueError
\* (ReadmeMarkerError is one), else 0.
readme_status(ret) == IF ret \in {"OSError", "NotUnique", "OutOfOrder"} THEN 2 ELSE 0

\* _maybe_update_readme(root, args, rows): the status it returns, the README
\* after it, the call of _update_readme_table it made (NoCall when none) and
\* what it printed.
maybe_update_readme(flags, file, rows) ==
    IF ~flags.update_readme
    THEN [ret |-> 0, out |-> file, call |-> NoCall, stdout |-> <<>>, stderr |-> <<>>]
    ELSE
    LET result(table_md, r) ==
            [ret |-> readme_status(r.ret),
             out |-> r.out,
             call |-> [table |-> table_md, before |-> file, ret |-> r.ret,
                       wrote |-> r.wrote],
             stdout |-> IF r.ret = "True" THEN <<"Updated README table: ">> ELSE <<>>,
             stderr |-> IF readme_status(r.ret) # 0 THEN <<error_text(r.ret)>> ELSE <<>>]
        update(table_md) ==
            result(table_md,
                   update_readme_table(file, readme_table_markers[1],
                                       readme_table_markers[2], table_md))
    IN  update(markdown_table(rows, Stat))

\* PlotRequest(csv_path, out_svg, title, stat, dims, log_y): what the chart is
\* drawn from.
PlotRequest(rows) ==
    [title |-> Metric.title, stat |-> Stat,
     dims |-> [i \in 1..Len(rows) |-> rows[i].dim]]

\* The SVG a successful run of the charting program writes: a chart of the
\* CSV's text with the request's title and ticks.
Chart(req, csv_text) == <<"svg", req, csv_text>>

\* What a failed run of the charting program may leave at the output path.
PartialSvg == <<"partial">>

\* _render_svg_with_gnuplot(req): the exception it raises, whether it started
\* the program, and the SVG file after it.  left_partial: a failed run left
\* its output file behind.
render_svg_with_gnuplot(req, program, csv_text, svg_file, left_partial) ==
    IF program = "absent"
    THEN [raise |-> "FileNotFoundError", started |-> FALSE, svg |-> svg_file]
    ELSE IF program = "fails"
    THEN [raise |-> "CalledProcessError", started |-> TRUE,
          svg |-> IF left_partial THEN PartialSvg ELSE svg_file]
    ELSE [raise |-> "none", started |-> TRUE, svg |-> Chart(req, csv_text)]

\* Mutant of plot_status: a failed plot is reported as success.
plot_status_ignored(raise) == 0

\* The try/except of _maybe_render_plot: 1 when rendering raised, else 0.
plot_status(raise) ==
    IF raise \in {"FileNotFoundError", "CalledProcessError"} THEN 1 ELSE 0

\* if args.no_plot
skip_plot(flags) == flags.no_plot

\* _maybe_render_plot(args, req, skipped)
maybe_render_plot(flags, req, skipped, program, csv_text, svg_file, left_partial) ==
    IF skip_plot(flags)
    THEN [ret |-> 0, started |-> FALSE, svg |-> svg_file,
          stdout |-> <<"Wrote CSV: ">>, stderr |-> <<>>]
    ELSE
    LET result(r) ==
            IF plot_status(r.raise) # 0
            THEN [ret |-> plot_status(r.raise), started |-> r.started, svg |-> r.svg,
                  stdout |-> <<>>,
                  stderr |-> <<r.raise, "Wrote CSV instead: ">>]
            ELSE [ret |-> 0, started |-> r.started, svg |-> r.svg,
                  stdout |-> (IF skipped # <<>>
                              THEN <<"Warning: some dimension groups were skipped:">>
                                       \o [i \in 1..Len(skipped) |->
                                               <<"  - ">> \o skipped[i]]
                              ELSE <<>>)
                                 \o <<"Wrote CSV: ", "Wrote SVG: ">>,
                  stderr |-> <<>>]
    IN  result(render_svg_with_gnuplot(req, program, csv_text, svg_file, left_partial))

\* The READMEs main is run on: none, no markers, a valid pair around an old
\* table, the markers out of order, a marker twice.
MainReadmes ==
    { NoFile,
      <<"x", LF>>,
      <<"x", LF, "B", LF, "|", "x", LF, "E", LF, "x", LF>>,
      <<"E", LF, "B", LF>>,
      <<"B", LF, "B", LF, "E", LF>> }

\* The Criterion directories main is run on.
MainFileSystems ==
    {fs \in FileSystems :
        fs.exists =>
            /\ Other \notin DOMAIN fs.children
            /\ D02 \in DOMAIN fs.children
                   => fs.children[D02] = DirEntry(PresentEst(D02, Benches))}

InitMain ==
    /\ readme \in MainReadmes
    /\ marker_begin = readme_table_markers[1]
    /\ marker_end = readme_table_markers[2]
    /\ upd = NoCall
    /\ upd_prev = NoPrev
    /\ criterion \in MainFileSystems
    /\ dims = <<>>
    /\ dims_from = "none"
    /\ col = NoCollect
    /\ args \in [update_readme : BOOLEAN, no_plot : BOOLEAN]
    /\ gnuplot \in {"absent", "fails", "ok"}
    /\ pc = "start"
    /\ rc = <<>>
    /\ exc = "none"
    /\ csv = NoFile
    /\ svg = NoFile
    /\ gnuplot_runs = 0
    /\ stdout = <<>>
    /\ stderr = <<>>
    /\ plot = NoPlot
    /\ CalcIdle

\* dims = _discover_dims(criterion_dir) if criterion_dir.exists() else [];
\* if not dims: ... return 2
MainDiscover ==
    /\ pc = "start"
    /\ \E order \in Perms(IF criterion.exists THEN DOMAIN criterion.children ELSE {}) :
           dims' = IF criterion.exists THEN discover_dims(criterion, order) ELSE <<>>
    /\ dims_from' = "discovered"
    /\ IF dims' = <<>>
       THEN /\ stderr' = Append(stderr, "No Criterion results found under ")
            /\ rc' = <<2>>
            /\ pc' = "done"
       ELSE /\ pc' = "discovered"
            /\ UNCHANGED <<stderr, rc>>
    /\ UNCHANGED <<calc_vars, readme_vars, criterion, col, args, gnuplot, exc, csv, svg,
                   gnuplot_runs, stdout, plot>>

\* rows, skipped = _collect_rows(...); if not rows: ... return 2
MainCollect ==
    /\ pc = "discovered"
    /\ \E r \in {collect_rows(criterion, dims, Metric, Stat)} :
           /\ col' = [state |-> "done", dims |-> dims, raise |-> r.raise,
                      rows |-> r.rows, skipped |-> r.skipped]
           /\ IF r.raise # "none"
              THEN /\ exc' = r.raise
                   /\ pc' = "done"
                   /\ UNCHANGED <<rc, stderr>>
              ELSE IF r.rows = <<>>
              THEN /\ stderr' = stderr
                          \o <<"No benchmark results found to plot for the selected metric/stat.">>
                          \o (IF r.skipped # <<>>
                              THEN <<"Skipped groups:">>
                                       \o [i \in 1..Len(r.skipped) |->
                                               <<"  - ">> \o r.skipped[i]]
                              ELSE <<>>)
                   /\ rc' = <<2>>
                   /\ pc' = "done"
                   /\ UNCHANGED exc
              ELSE /\ pc' = "collected"
                   /\ UNCHANGED <<rc, exc, stderr>>
    /\ UNCHANGED <<calc_vars, readme_vars, criterion, dims, dims_from, args, gnuplot,
                   csv, svg, gnuplot_runs, stdout, plot>>

\* _write_csv(out_csv, rows)
MainWriteCsv ==
    /\ pc = "collected"
    /\ csv' = write_csv(col.rows)
    /\ pc' = "csv_written"
    /\ UNCHANGED <<calc_vars, readme_vars, rows_vars, args, gnuplot, rc, exc, svg,
                   gnuplot_runs, stdout, stderr, plot>>

\* Mutant of MainUpdateReadme: the status of the update is not looked at,
\* and main goes on to the plot whatever it is.
MainUpdateReadmeStatusUnused ==
    /\ pc = "csv_written"
    /\ \E r \in {maybe_update_readme(args, readme, col.rows)} :
           /\ readme' = r.out
           /\ IF r.call = NoCall
              THEN UNCHANGED <<upd, upd_prev>>
              ELSE /\ upd' = r.call
                   /\ upd_prev' = [table |-> upd.table, ret |-> upd.ret]
           /\ stdout' = stdout \o r.stdout
           /\ stderr' = stderr \o r.stderr
           /\ pc' = "readme_done"
           /\ UNCHANGED rc
    /\ UNCHANGED <<calc_vars, marker_begin, marker_end, rows_vars, args, gnuplot, exc,
                   csv, svg, gnuplot_runs, plot>>

\* rc = _maybe_update_readme(root, args, rows); if rc != 0: return rc
MainUpdateReadme ==
    /\ pc = "csv_written"
    /\ \E r \in {maybe_update_readme(args, readme, col.rows)} :
           /\ readme' = r.out
           /\ IF r.call = NoCall
              THEN UNCHANGED <<upd, upd_prev>>
              ELSE /\ upd' = r.call
                   /\ upd_prev' = [table |-> upd.table, ret |-> upd.ret]
           /\ stdout' = stdout \o r.stdout
           /\ stderr' = stderr \o r.stderr
           /\ IF r.ret # 0
              THEN rc' = <<r.ret>> /\ pc' = "done"
              ELSE pc' = "readme_done" /\ UNCHANGED rc
    /\ UNCHANGED <<calc_vars, marker_begin, marker_end, rows_vars, args, gnuplot, exc,
                   csv, svg, gnuplot_runs, plot>>

\* return _maybe_render_plot(args, req, skipped)
MainRenderPlot ==
    /\ pc = "readme_done"
    /\ \E left_partial \in BOOLEAN :
        \E r \in {maybe_render_plot(args, PlotRequest(col.rows), col.skipped,
                                    gnuplot, csv, svg, left_partial)} :
            /\ svg' = r.svg
            /\ gnuplot_runs' = gnuplot_runs + (IF r.started THEN 1 ELSE 0)
            /\ stdout' = stdout \o r.stdout
            /\ stderr' = stderr \o r.stderr
            /\ rc' = <<r.ret>>
            /\ plot' = [state |-> "done", ret |-> r.ret, csv_before |-> csv,
                        svg_before |-> svg]
            /\ pc' = "done"
    /\ UNCHANGED <<calc_vars, readme_vars, rows_vars, args, gnuplot, exc, csv>>

NextMain ==
    MainDiscover \/ MainCollect \/ MainWriteCsv \/ MainUpdateReadme \/ MainRenderPlot

SpecMain == InitMain /\ [][NextMain]_vars

----------------------------------------------------------------------------
(* The pure functions, called on their own: _pct_reduction, _markdown_table, *)
(* _write_csv and _read_estimate.                                            *)

\* The times the percentage is computed from; from 8.0 to 7.972 the exact
\* reduction is 0.35 percent, halfway between two tenths.
CalcTimes == {0, 7000, 7972, 8000, 50125, 100000, 1234567}

\* (time, lower, upper) of the three implementations in a row.
LaTriples == { <<0, 0, 0>>, <<50125, 49000, 51500>>, <<1234567, 1234000, 1235100>> }
NaTriples == { <<0, 0, 0>>, <<100000, 90000, 110000>> }
FaTriples == { <<0, 0, 0>>, <<7000, 7000, 7000>> }

CalcRows ==
    {Row(d, la, na, fa) : d \in {2, 10}, la \in LaTriples, na \in NaTriples, fa \in FaTriples}

\* The row lists the table and the CSV are built from, as long as a
\* dimension list may be.
CalcRowLists == UNION {[1..n -> CalcRows] : n \in 0..MaxDims}

\* The objects a statistic of a result file may be: with or without the
\* point estimate, the confidence interval absent, null, or an object with
\* both bounds, one of them, or neither; the point estimate and the bounds
\* numbers, or values of another JSON type.
Intervals ==
    { Null,
      Obj([lower_bound |-> Num(49000), upper_bound |-> Num(51500)]),
      Obj([lower_bound |-> Num(49000)]),
      Obj([upper_bound |-> Num(51500)]),
      Obj([standard_error |-> Num(10)]),
      Obj([lower_bound |-> Str(49000), upper_bound |-> Null]),
      Obj([lower_bound |-> Text, upper_bound |-> Arr]) }

StatObjects ==
    LET points == {Num(0), Num(50125), Str(50125), Bool(TRUE), Null, Text}
    IN  {Obj([point_estimate |-> p]) : p \in points}
            \cup {Obj([point_estimate |-> p, confidence_interval |-> ci]) :
                      p \in points, ci \in Intervals}
            \cup {Obj([confidence_interval |-> ci]) : ci \in Intervals}

\* The parsed contents of the result files _read_estimate is called on: the
\* statistic an object, a number, null or absent, next to another statistic
\* or alone; and files whose content is no object at all.
CalcFiles ==
    {NoStatFile, Obj([median |-> Num(50125)]), Obj([median |-> Null])}
        \cup {Obj([median |-> so]) : so \in StatObjects}
        \cup {Obj([median |-> so, mean |-> Obj([point_estimate |-> Num(1000)])]) :
                  so \in StatObjects}
        \cup {Null, Num(50125), Arr, Str(50125)}

\* The arguments a call is made with.
CalcInputs ==
    {[NoCalc EXCEPT !.given = "times", !.baseline = baseline, !.value = value] :
         baseline \in CalcTimes \cup {Infinity}, value \in CalcTimes \cup {Infinity}}
        \cup {[NoCalc EXCEPT !.given = "rows", !.rows = rows, !.stat = stat] :
                  rows \in CalcRowLists, stat \in {"median", "mean"}}
        \cup {[NoCalc EXCEPT !.given = "file", !.data = data, !.stat = stat] :
                  data \in CalcFiles, stat \in {"median", "mean"}}

InitCalc ==
    /\ ReadmeIdle
    /\ RowsIdle
    /\ MainIdle
    /\ calc \in CalcInputs

\* _pct_reduction(baseline, value)
CallPctReduction ==
    /\ calc.op = "none"
    /\ calc.given = "times"
    /\ calc' = [calc EXCEPT !.op = "pct_reduction",
                            !.text = pct_reduction(calc.baseline, calc.value)]
    /\ UNCHANGED <<readme_vars, rows_vars, main_vars>>

\* _markdown_table(rows, stat)
CallMarkdownTable ==
    /\ calc.op = "none"
    /\ calc.given = "rows"
    /\ calc' = [calc EXCEPT !.op = "markdown_table",
                            !.text = markdown_table(calc.rows, calc.stat)]
    /\ UNCHANGED <<readme_vars, rows_vars, main_vars>>

\* _write_csv(out_csv, rows)
CallWriteCsv ==
    /\ calc.op = "none"
    /\ calc.given = "rows"
    /\ calc' = [calc EXCEPT !.op = "write_csv", !.text = write_csv(calc.rows)]
    /\ UNCHANGED <<readme_vars, rows_vars, main_vars>>

\* _read_estimate(estimates_json, stat) on a file that exists
CallReadEstimate ==
    /\ calc.op = "none"
    /\ calc.given = "file"
    /\ calc' = [calc EXCEPT !.op = "read_estimate",
                            !.est = read_estimate(calc.data, calc.stat)]
    /\ UNCHANGED <<readme_vars, rows_vars, main_vars>>

NextCalc == CallPctReduction \/ CallMarkdownTable \/ CallWriteCsv \/ CallReadEstimate

SpecCalc == InitCalc /\ [][NextCalc]_vars

----------------------------------------------------------------------------
(* Runs of the documentation update, one after another on the same README, *)
(* each with the table of the rows of its run.                              *)

\* The rows of the runs: none, one dimension, and two, the second with a
\* zero time to compare with.
UpdateRowLists ==
    { <<>>,
      <<Row(2, <<50125, 49000, 51500>>, <<100000, 90000, 110000>>,
            <<7000, 7000, 7000>>)>>,
      <<Row(2, <<50125, 49000, 51500>>, <<100000, 90000, 110000>>,
            <<7000, 7000, 7000>>),
        Row(10, <<1234567, 1234000, 1235100>>, <<0, 0, 0>>, <<7000, 7000, 7000>>)>> }

InitUpdates ==
    /\ readme \in Docs
    /\ marker_begin = readme_table_markers[1]
    /\ marker_end = readme_table_markers[2]
    /\ upd = NoCall
    /\ upd_prev = NoPrev
    /\ RowsIdle
    /\ args \in [update_readme : BOOLEAN, no_plot : {TRUE}]
    /\ gnuplot = "absent"
    /\ pc = "idle"
    /\ rc = <<>>
    /\ exc = "none"
    /\ csv = NoFile
    /\ svg = NoFile
    /\ gnuplot_runs = 0
    /\ stdout = <<>>
    /\ stderr = <<>>
    /\ plot = NoPlot
    /\ CalcIdle

\* rc = _maybe_update_readme(root, args, rows), with the rows of this run;
\* stdout and stderr hold what this call printed.
MaybeUpdateReadme ==
    /\ \E rows \in UpdateRowLists :
        \E r \in {maybe_update_readme(args, readme, rows)} :
            /\ readme' = r.out
            /\ IF r.call = NoCall
               THEN UNCHANGED <<upd, upd_prev>>
               ELSE /\ upd' = r.call
                    /\ upd_prev' = [table |-> upd.table, ret |-> upd.ret]
            /\ rc' = <<r.ret>>
            /\ stdout' = r.stdout
            /\ stderr' = r.stderr
    /\ UNCHANGED <<marker_begin, marker_end, rows_vars, args, gnuplot, pc, exc, csv, svg,
                   gnuplot_runs, plot, calc_vars>>

NextUpdates == MaybeUpdateReadme

SpecUpdates == InitUpdates /\ [][NextUpdates]_vars

----------------------------------------------------------------------------
(* What the claims about _update_readme_table speak of, stated on the file  *)
(* itself: its lines are the pieces between line breaks, breaks included.   *)

DocLines(file) == splitlines(file, TRUE)

\* The lines of the file that, stripped, equal the marker.
MarkerAt(file, marker) ==
    {i \in 1..Len(DocLines(file)) : strip(DocLines(file)[i]) = marker}

OnlyIndex(S) == CHOOSE i \in S : TRUE

\* Exactly one begin line, exactly one end line.
UniqueMarkers(file) ==
    /\ file # NoFile
    /\ Cardinality(MarkerAt(file, marker_begin)) = 1
    /\ Cardinality(MarkerAt(file, marker_end)) = 1

BeginLine(file) == OnlyIndex(MarkerAt(file, marker_begin))
EndLine(file) == OnlyIndex(MarkerAt(file, marker_end))

\* A valid marker pair: both unique, begin before end.
ValidPair(file) == UniqueMarkers(file) /\ BeginLine(file) < EndLine(file)

\* The replacement's lines, each ended by "\n" (blank lines at either end of
\* the replacement dropped).
ReplacementLines(table_md) ==
    LET ls == splitlines(strip_chars(table_md, {LF}), FALSE)
    IN  [i \in 1..Len(ls) |-> ls[i] \o <<LF>>]

\* The lines strictly between the markers, as the script reads them.
Region(file) ==
    LET ls == splitlines(universal_newlines(file), TRUE)
    IN  SubSeq(ls, BeginLine(file) + 1, EndLine(file) - 1)

\* A replacement line that, stripped, is one of the markers.
HasMarkerLine(table_md) ==
    \E i \in 1..Len(ReplacementLines(table_md)) :
        strip(ReplacementLines(table_md)[i]) \in {marker_begin, marker_end}

Called == upd.ret # "none"
Returned == upd.ret \in {"True", "False"}

\* The file after the call is: the original lines up to and with the begin
\* line, the replacement's lines, the original lines from the end line on.
ReplacedBetweenMarkers ==
    DocLines(readme) =
        SubSeq(DocLines(upd.before), 1, BeginLine(upd.before))
            \o ReplacementLines(upd.table)
            \o SubSeq(DocLines(upd.before), EndLine(upd.before),
                      Len(DocLines(upd.before)))

\* C1: on a document with a valid marker pair the call leaves exactly the
\* original lines up to and including the begin line, unchanged, then the
\* replacement's lines, then the original lines from the end line on,
\* unchanged.
C1_OutsideVerbatim ==
    (Called /\ ValidPair(upd.before)) => ReplacedBetweenMarkers

\* The same for a document that holds no carriage return: there the lines
\* outside the pair are kept character for character.
LFOnlyOutsideVerbatim ==
    (Called /\ ValidPair(upd.before) /\ \A i \in 1..Len(upd.before) : upd.before[i] # CR)
        => ReplacedBetweenMarkers

\* C2, as claimed: on every document with a valid pair the first call
\* returns True, and a second call with the same replacement returns False
\* and leaves the content as the first call left it.
C2_FirstTrueThenFalse ==
    /\ (Called /\ upd_prev.ret = "none" /\ ValidPair(upd.before)) => upd.ret = "True"
    /\ (upd_prev.ret \in {"True", "False"} /\ upd_prev.table = upd.table)
           => (upd.ret = "False" /\ readme = upd.before)

\* C2, amended: a call on a valid pair returns True exactly when the lines
\* between the markers differ from the replacement's lines; a second call
\* with the same replacement returns False and leaves the content as it was
\* when no replacement line is a marker, and otherwise raises the "not
\* unique" error, the content again left as it was.
C2_Idempotent ==
    /\ (Called /\ ValidPair(upd.before))
           => /\ Returned
              /\ (upd.ret = "True") <=> (Region(upd.before) # ReplacementLines(upd.table))
    /\ (upd_prev.ret \in {"True", "False"} /\ upd_prev.table = upd.table)
           => /\ readme = upd.before
              /\ upd.ret = (IF HasMarkerLine(upd.table) THEN "NotUnique" ELSE "False")

C2_Witness ==
    /\ upd_prev.ret = "True"
    /\ upd_prev.table = upd.table
    /\ upd.ret = "False"
    /\ ReplacementLines(upd.table) # <<>>

\* C3: the call raises the "not found or not unique" error exactly when the
\* begin marker or the end marker does not occur on exactly one line, whatever
\* the order of the marker lines, and nothing is written then.
C3_NotUniqueRaises ==
    (Called /\ upd.before # NoFile)
        => /\ (upd.ret = "NotUnique") <=> ~UniqueMarkers(upd.before)
           /\ upd.ret = "NotUnique" => readme = upd.before

\* Two begin lines, the end line above them: not unique, and out of order.
C3_Witness ==
    /\ upd.ret = "NotUnique"
    /\ Cardinality(MarkerAt(upd.before, marker_begin)) = 2
    /\ Cardinality(MarkerAt(upd.before, marker_end)) = 1
    /\ \A i \in MarkerAt(upd.before, marker_begin) : EndLine(upd.before) < i

\* C4: with each marker on exactly one line, the call raises the "out of
\* order" error exactly when the begin line is not strictly above the end line.
C4_OutOfOrderRaises ==
    (Called /\ UniqueMarkers(upd.before))
        => ((upd.ret = "OutOfOrder") <=> (BeginLine(upd.before) >= EndLine(upd.before)))

\* One line matches both markers.
C4_Witness ==
    /\ upd.ret = "OutOfOrder"
    /\ UniqueMarkers(upd.before)
    /\ BeginLine(upd.before) = EndLine(upd.before)

\* C5: the call returns True exactly when the file after it differs from the
\* file before it, and it writes the file in exactly that case; a call that
\* returns False or raises leaves the file as it was.
C5_WritesOnlyOnChange ==
    Called => /\ (upd.ret = "True") <=> (readme # upd.before)
              /\ upd.wrote <=> (upd.ret = "True")
              /\ upd.ret # "True" => (readme = upd.before /\ ~upd.wrote)

C5_Witness ==
    /\ upd_prev.ret = "True"
    /\ upd.ret = "False"
    /\ ~upd.wrote
    /\ readme = upd.before

----------------------------------------------------------------------------
(* What the claims about _collect_rows and main speak of. *)

\* All three estimates.json of dimension d exist under d<d>.
CompleteDim(d) == \A b \in Benches : estimates_json(criterion, d, b) # Missing

\* Each of the three files of a complete dimension holds the statistic.
WellFormedDim(d) ==
    \A b \in Benches : read_estimate(estimates_json(criterion, d, b), Stat).raise = "none"

RECURSIVE CompleteOf(_)
\* The dimensions of the list whose three files exist, in the list's order.
CompleteOf(ds) ==
    IF ds = <<>> THEN <<>>
    ELSE (IF CompleteDim(Head(ds)) THEN <<Head(ds)>> ELSE <<>>) \o CompleteOf(Tail(ds))

RECURSIVE IncompleteOf(_)
\* The dimensions of the list with a file missing, in the list's order.
IncompleteOf(ds) ==
    IF ds = <<>> THEN <<>>
    ELSE (IF CompleteDim(Head(ds)) THEN <<>> ELSE <<Head(ds)>>) \o IncompleteOf(Tail(ds))

RowDims == [i \in 1..Len(col.rows) |-> col.rows[i].dim]

\* The skip entry names dimension d: it reads "d<d> (missing ...".
SkipNames(entry, d) ==
    /\ Len(entry) >= Len(str_of(d)) + 2
    /\ SubSeq(entry, 1, Len(str_of(d)) + 2) = <<"d">> \o str_of(d) \o <<" (missing ">>

\* Every dimension of the input is in exactly one output: a row when its three
\* files exist, a skip entry when one is missing.
RowsAndSkipsPartition ==
    /\ col.raise = "none"
    /\ RowDims = CompleteOf(col.dims)
    /\ Len(col.skipped) = Len(IncompleteOf(col.dims))
    /\ \A i \in 1..Len(col.skipped) : SkipNames(col.skipped[i], IncompleteOf(col.dims)[i])
    /\ Len(col.rows) + Len(col.skipped) = Len(col.dims)

\* C6, as claimed: whatever the three files hold, a dimension with a file
\* missing gives one skip entry and no row, a dimension with all three gives
\* one row and no skip entry, and len(rows) + len(skipped) == len(dims).
C6_AllOrNothing == col.state = "done" => RowsAndSkipsPartition

\* C6, amended: that holds of every call in which each complete dimension's
\* files hold the statistic; when a complete dimension has a file without it,
\* the call raises and returns neither rows nor a skip list.
C6_AllOrNothingOrRaise ==
    col.state = "done" =>
        IF \A i \in 1..Len(col.dims) : CompleteDim(col.dims[i]) => WellFormedDim(col.dims[i])
        THEN RowsAndSkipsPartition
        ELSE col.raise # "none" /\ col.rows = <<>> /\ col.skipped = <<>>

C6_Witness ==
    /\ col.state = "done"
    /\ col.raise = "none"
    /\ Len(col.rows) = 1
    /\ Len(col.skipped) = 1
    /\ \E b \in Benches : estimates_json(criterion, IncompleteOf(col.dims)[1], b) # Missing

RECURSIVE IsSubsequence(_, _)
IsSubsequence(a, b) ==
    IF a = <<>> THEN TRUE
    ELSE IF b = <<>> THEN FALSE
    ELSE IF Head(a) = Head(b) THEN IsSubsequence(Tail(a), Tail(b))
    ELSE IsSubsequence(a, Tail(b))

Ascending(xs) == \A i \in 1..Len(xs) : \A j \in i..Len(xs) : xs[i] <= xs[j]

\* C7: the rows come in the order of their dimensions in the input list (the
\* row dimensions are a subsequence of it), and ascending when the list is the
\* one _discover_dims returned.
C7_RowsInInputOrder ==
    (col.state = "done" /\ col.raise = "none")
        => /\ IsSubsequence(RowDims, col.dims)
           /\ dims_from = "discovered" => Ascending(RowDims)

\* Rows of d2 and d10, discovered: 2 before 10, though "d10" < "d2" as names.
C7_Witness ==
    /\ col.state = "done"
    /\ dims_from = "discovered"
    /\ RowDims = <<2, 10>>

\* The dimensions of the d<N> directories under the Criterion directory.
DimDirs ==
    IF ~criterion.exists THEN {}
    ELSE {dim_from_group_dir(n) :
              n \in {m \in DOMAIN criterion.children :
                        /\ criterion.children[m].is_dir
                        /\ dim_from_group_dir(m) # NoneValue}}

\* No usable results: no input directory, no d<N> directory in it, or no
\* dimension with its three files.
NoUsableResults == \A d \in DimDirs : ~CompleteDim(d)

\* The README as main found it.
ReadmeBefore == IF Called THEN upd.before ELSE readme

\* The documentation update was asked for and fails: README unreadable, or its
\* markers missing, repeated or out of order.
UpdateFails ==
    /\ ~NoUsableResults
    /\ exc = "none"
    /\ args.update_readme
    /\ ~ValidPair(ReadmeBefore)

\* The plot was asked for and the charting program is absent or exits nonzero.
PlotFails == ~args.no_plot /\ gnuplot # "ok"

\* C8: main returns 2 when no usable results are found and when the
\* documentation update fails, and 0 on success, and only then.
C8_ExitStatus ==
    pc = "done" =>
        /\ NoUsableResults => rc = <<2>>
        /\ UpdateFails => rc = <<2>>
        /\ rc = <<2>> => (NoUsableResults \/ UpdateFails)
        /\ rc = <<0>> <=> /\ ~NoUsableResults
                          /\ exc = "none"
                          /\ ~UpdateFails
                          /\ ~PlotFails

\* The update fails after the CSV was written.
C8_Witness ==
    /\ pc = "done"
    /\ rc = <<2>>
    /\ UpdateFails
    /\ upd.ret = "OutOfOrder"
    /\ csv # NoFile

\* C9: no error escapes main as an exception: main returns, and with a
\* nonzero status and a message on stderr when a result file that exists
\* lacks the statistic.
C9_ErrorsSurfaced ==
    pc = "done" =>
        /\ exc = "none"
        /\ Len(rc) = 1
        /\ (\E d \in DimDirs : CompleteDim(d) /\ ~WellFormedDim(d))
               => (rc # <<0>> /\ stderr # <<>>)

\* C10: when the charting program is absent or exits nonzero,
\* _maybe_render_plot returns 1 and reports the CSV as written, and the CSV
\* is the file written earlier, untouched; with --no-plot the program is
\* never started and the result is 0.
C10_PlotFailureKeepsCsv ==
    plot.state = "done" =>
        /\ csv = plot.csv_before
        /\ csv = write_csv(col.rows)
        /\ args.no_plot =>
               /\ plot.ret = 0
               /\ gnuplot_runs = 0
               /\ svg = plot.svg_before
        /\ PlotFails =>
               /\ plot.ret = 1
               /\ rc = <<1>>
               /\ \E i \in 1..Len(stderr) : stderr[i] = "Wrote CSV instead: "
               /\ gnuplot_runs = (IF gnuplot = "absent" THEN 0 ELSE 1)

\* The program ran, exited nonzero and left a partial SVG; the CSV stands.
C10_Witness ==
    /\ plot.state = "done"
    /\ gnuplot = "fails"
    /\ gnuplot_runs = 1
    /\ svg = PartialSvg
    /\ plot.ret = 1
    /\ Len(col.rows) = 2
    /\ csv = write_csv(col.rows)

----------------------------------------------------------------------------
(* What the claims about the pure functions speak of. *)

NotApplicable == <<"n", "/", "a">>

Finite(t) == t # Infinity
Positive(t) == t = Infinity \/ t > 0

RECURSIVE split_on(_, _)
\* The pieces of s between the occurrences of sep.
split_on(s, sep) ==
    IF \E i \in 1..Len(s) : s[i] = sep
    THEN LET i == CHOOSE k \in 1..Len(s) :
                      s[k] = sep /\ \A j \in 1..(k - 1) : s[j] # sep
         IN  <<SubSeq(s, 1, i - 1)>> \o split_on(SubSeq(s, i + 1, Len(s)), sep)
    ELSE <<s>>

\* The cells of a line "| a | b |" of a Markdown table: <<a, b>>.
Cells(line) ==
    LET pieces == split_on(line, "|")
    IN  [k \in 1..(Len(pieces) - 2) |-> strip_chars(pieces[k + 1], {SP})]

\* The cells of the table's line for row i, below the two header lines.
RowCells(text, i) == Cells(split_on(text, LF)[i + 2])

\* C11: _pct_reduction(0, value) is "n/a" for every value, and in the table
\* of _markdown_table a row with a zero nalgebra (faer) time has "n/a" in the
\* la-stack-vs-nalgebra (-faer) column while its other comparison column
\* holds the percentage computed from the other baseline.
C11_ZeroBaselineNotApplicable ==
    /\ (calc.op = "pct_reduction" /\ calc.baseline = 0) => calc.text = NotApplicable
    /\ calc.op = "markdown_table" =>
           \A i \in 1..Len(calc.rows) :
               LET r == calc.rows[i]
                   cells == RowCells(calc.text, i)
               IN  /\ Len(cells) = 6
                   /\ r.na_time = 0 => cells[5] = NotApplicable
                   /\ r.fa_time = 0 => cells[6] = NotApplicable
                   /\ r.na_time # 0 =>
                          /\ cells[5] = pct_reduction(r.na_time, r.la_time)
                          /\ cells[5][Len(cells[5])] = "%"
                   /\ r.fa_time # 0 =>
                          /\ cells[6] = pct_reduction(r.fa_time, r.la_time)
                          /\ cells[6][Len(cells[6])] = "%"

\* A table whose second row has a zero nalgebra time and a faer time to
\* compare with: "n/a" next to "-616.1%".
C11_Witness ==
    /\ calc.op = "markdown_table"
    /\ Len(calc.rows) = 2
    /\ calc.rows[2].na_time = 0
    /\ calc.rows[2].fa_time = 7000
    /\ calc.rows[2].la_time = 50125
    /\ RowCells(calc.text, 2)[5] = NotApplicable
    /\ RowCells(calc.text, 2)[6] = <<"-", "6", "1", "6", ".", "1", "%">>

PlusZero == <<"+", "0", ".", "0", "%">>

\* C12, as claimed: for every baseline > 0, _pct_reduction(baseline, baseline)
\* is "+0.0%".
C12_EqualTimesPlusZero ==
    (/\ calc.op = "pct_reduction"
     /\ Positive(calc.baseline)
     /\ calc.value = calc.baseline) => calc.text = PlusZero

\* C12, amended: for every finite baseline > 0, _pct_reduction(baseline,
\* baseline) is "+0.0%"; for the infinite baseline it is "+nan%".
C12_FiniteEqualTimesPlusZero ==
    (/\ calc.op = "pct_reduction"
     /\ Positive(calc.baseline)
     /\ calc.value = calc.baseline) =>
        IF Finite(calc.baseline) THEN calc.text = PlusZero
        ELSE calc.text = <<"+", "n", "a", "n", "%">>

C12_Witness ==
    /\ calc.op = "pct_reduction"
    /\ calc.baseline = 1234567
    /\ calc.value = 1234567
    /\ calc.text = PlusZero

\* The file's object for the statistic asked for, where it has one.
HasStatObject ==
    /\ is_dict(calc.data)
    /\ calc.stat \in DOMAIN calc.data.val
    /\ is_dict(calc.data.val[calc.stat])
StatObject == calc.data.val[calc.stat].val
HasInterval ==
    "confidence_interval" \in DOMAIN StatObject /\ is_dict(StatObject.confidence_interval)
HasBound(name) == HasInterval /\ name \in DOMAIN StatObject.confidence_interval.val
BoundOr(name, point) ==
    IF HasBound(name) THEN StatObject.confidence_interval.val[name].val ELSE point

\* The value is a number, or what float() turns into one.
IsNumber(x) == x.kind \in {"num", "bool", "str"}

\* The point estimate and the bounds the object holds are numbers.
AllNumbers ==
    /\ IsNumber(StatObject.point_estimate)
    /\ \A name \in {"lower_bound", "upper_bound"} :
           HasBound(name) => IsNumber(StatObject.confidence_interval.val[name])

\* C13: on a file that holds a JSON object _read_estimate raises KeyError
\* when the statistic is absent or not an object (and when the object has no
\* point estimate); otherwise, the values it reads being numbers, it returns
\* (point, lower, upper), each bound the interval's where the interval object
\* holds it and the point value where it does not or there is no interval.
C13_ReadEstimate ==
    (calc.op = "read_estimate" /\ is_dict(calc.data)) =>
        IF ~HasStatObject \/ "point_estimate" \notin DOMAIN StatObject
        THEN calc.est.raise = "KeyError"
        ELSE IF ~AllNumbers
        THEN calc.est.raise \in {"TypeError", "ValueError"}
        ELSE LET point == StatObject.point_estimate.val
             IN  /\ calc.est.raise = "none"
                 /\ calc.est.val = <<point, BoundOr("lower_bound", point),
                                     BoundOr("upper_bound", point)>>
                 /\ ~HasInterval => calc.est.val = <<point, point, point>>

\* An interval with an upper bound only: the lower bound is the point value.
C13_Witness ==
    /\ calc.op = "read_estimate"
    /\ HasStatObject
    /\ HasInterval
    /\ DOMAIN StatObject.confidence_interval.val = {"upper_bound"}
    /\ calc.est = [raise |-> "none", val |-> <<50125, 50125, 51500>>]

\* float(text) of a decimal numeral, in thousandths.
float_of(ds) ==
    LET parts == split_on(ds, ".")
        frac  == IF Len(parts) > 1 THEN parts[2] ELSE <<>>
        pad   == frac \o SubSeq(<<"0", "0", "0">>, 1, 3 - Len(frac))
    IN  int_of(parts[1]) * 1000 + int_of(pad)

\* A line of the CSV read back: the dimension and the nine times.
ParsedLine(line) ==
    LET f == split_on(line, ",")
    IN  IF Len(f) # 10 THEN <<>>
        ELSE <<int_of(f[1])>> \o [k \in 1..9 |-> float_of(f[k + 1])]

FieldsOf(r) ==
    <<r.dim, r.la_time, r.la_lo, r.la_hi, r.na_time, r.na_lo, r.na_hi,
      r.fa_time, r.fa_lo, r.fa_hi>>

\* C14: the text _write_csv writes is the header line and then one line per
\* row, in row order, every line ended by "\n"; read back, line i + 1 gives
\* the ten fields of row i: the dimension, then (value, lower, upper) of
\* la_stack, nalgebra and faer.
C14_CsvRoundTrip ==
    calc.op = "write_csv" =>
        LET lines == split_on(calc.text, LF)
        IN  /\ Len(lines) = Len(calc.rows) + 2
            /\ lines[Len(lines)] = <<>>
            /\ lines[1] \o <<LF>> = CsvHeader
            /\ Len(split_on(lines[1], ",")) = 10
            /\ \A i \in 1..Len(calc.rows) :
                   ParsedLine(lines[i + 1]) = FieldsOf(calc.rows[i])

\* Two rows, dimension 10 before 2, with fractions and a time over a
\* thousand.
C14_Witness ==
    /\ calc.op = "write_csv"
    /\ Len(calc.rows) = 2
    /\ calc.rows[1].dim = 10
    /\ calc.rows[2].dim = 2
    /\ calc.rows[1].la_time = 1234567
    /\ calc.rows[2].la_time = 50125
    /\ calc.rows[2].na_time = 100000

----------------------------------------------------------------------------
(* What the claims about runs of the update and of main speak of. *)

\* Every line of the replacement text begins with "|".
LinesBeginWithBar(table_md) ==
    \A i \in 1..Len(ReplacementLines(table_md)) : ReplacementLines(table_md)[i][1] = "|"

\* C15: after an update that succeeded with a table of _markdown_table the
\* README holds exactly one begin-marker line and exactly one end-marker line,
\* begin before end, and the update after a successful one succeeds as well:
\* once an update has passed marker validation, none after it fails it.
C15_MarkersSurviveUpdates ==
    /\ Called => LinesBeginWithBar(upd.table)
    /\ Returned => ValidPair(readme)
    /\ (upd_prev.ret \in {"True", "False"}) => Returned
    /\ (Called /\ ValidPair(upd.before)) => Returned

\* Two successful updates in a row with different tables, both written.
C15_Witness ==
    /\ upd_prev.ret = "True"
    /\ upd.ret = "True"
    /\ upd.table # upd_prev.table
    /\ Len(ReplacementLines(upd.table)) = 4
    /\ ValidPair(readme)

\* What a step of main may do, given what was done before it: the CSV is
\* written once, before any call of the update and of the plot; the README is
\* touched only with the CSV written and the plot not yet called; the plot
\* runs only with the CSV written and with the update, where asked for,
\* returned; and nothing is done once main has returned.
StagesInOrder ==
    /\ csv' # csv => (csv = NoFile /\ upd = NoCall /\ plot.state = "none")
    /\ (readme' # readme \/ upd' # upd) =>
           (csv # NoFile /\ csv' = csv /\ plot.state = "none" /\ svg' = svg)
    /\ (plot' # plot \/ svg' # svg \/ gnuplot_runs' # gnuplot_runs) =>
           /\ csv # NoFile
           /\ csv' = csv
           /\ readme' = readme
           /\ args.update_readme => Returned
    /\ rc # <<>> => UNCHANGED vars

\* Where main has come to after a step that ended it on a failure: with no
\* usable results nothing was written; with a failed update the CSV stands,
\* the README is as it was, the plot was not called and the status is 2.
FailureStopsLaterStages ==
    pc' = "done" =>
        /\ NoUsableResults =>
               /\ csv' = NoFile
               /\ svg' = NoFile
               /\ upd' = NoCall
               /\ readme' = readme
               /\ plot'.state = "none"
               /\ gnuplot_runs' = 0
        /\ (upd'.ret \in {"OSError", "NotUnique", "OutOfOrder"}) =>
               /\ csv' = write_csv(col.rows)
               /\ readme' = upd'.before
               /\ plot'.state = "none"
               /\ svg' = NoFile
               /\ gnuplot_runs' = 0
               /\ rc' = <<2>>

\* C16: every step of main keeps the order CSV, README, plot, and a stage
\* that fails ends the run before any later stage: nothing is written when no
\* usable results are found, and after a failed update the CSV is written, the
\* plot is not attempted and main returns 2.
C16_StagesInOrder == [][StagesInOrder /\ FailureStopsLaterStages]_vars

\* The update failed on a README without its markers, with a charting
\* program at hand that was never started.
C16_Witness ==
    /\ pc = "done"
    /\ upd.ret = "NotUnique"
    /\ ~args.no_plot
    /\ gnuplot = "ok"
    /\ gnuplot_runs = 0
    /\ svg = NoFile
    /\ csv = write_csv(col.rows)
    /\ Len(col.rows) = 2

\* C17: the rows main collects have strictly ascending dimensions: no
\* dimension is in two rows, whatever the directory holds.
C17_DistinctDimensions ==
    (pc # "idle" /\ col.state = "done" /\ col.raise = "none") =>
        \A i \in 1..Len(col.rows) : \A j \in (i + 1)..Len(col.rows) :
            col.rows[i].dim < col.rows[j].dim

====
